---- MODULE Spec2Model ----
(***************************************************************************)
(* travel-backup-script.py: a command-line wrapper that resolves           *)
(* configuration from CLI flags, the process environment and a .env file,  *)
(* builds a restic S3 repository address, validates, and runs restic.      *)
(*                                                                         *)
(* Python strings are sequences of one-character strings; the Python None  *)
(* is the one-element sequence <<"None">>, which no string equals.  A dict *)
(* is a function whose DOMAIN is its key set.                              *)
(***************************************************************************)
EXTENDS Integers, Sequences, FiniteSets, TLC

VARIABLES
    argv,           \* the command line: one field per flag, None when the flag is not given
    ambient,        \* the environment the process was started with (never changes)
    envfile,        \* the .env file: whether it exists, and its name -> value mapping
    source_exists,  \* os.path.exists(args.source)
    restic_on_path, \* which("restic") is not None
    environ,        \* os.environ
    args,           \* the argparse namespace
    pc,             \* the statement main (or the called function) is at
    repo,           \* main's repo / build_repo's result
    env,            \* main's env / redact_env's argument
    redacted,       \* redact_env's result
    missing,        \* main's missing list
    cmd,            \* main's cmd list
    out,            \* the lines printed so far
    runs,           \* how many times subprocess.run was called
    proc,           \* what subprocess.run was given and what became of it
    exit_at,        \* the return statement main left by
    rc              \* main's return value (-1 while running)

vars == <<argv, ambient, envfile, source_exists, restic_on_path, environ, args, pc,
          repo, env, redacted, missing, cmd, out, runs, proc, exit_at, rc>>

-----------------------------------------------------------------------------
(* Values *)

\* the exit statuses 0..MaxStatus of the child, and the longest string of an address part
MaxStatus == 4
MaxLen == 2

None == <<"None">>
EmptyMap == [k \in {} |-> <<>>]
NoFile == [exists |-> FALSE, vars |-> EmptyMap]
Truthy(x) == x # None /\ x # <<>>

S3 == <<"s", "3", ":">>
MARKER == <<"*", "*", "*", "R", "E", "D", "A", "C", "T", "E", "D", "*", "*", "*">>
DefaultEndpoint == <<"s", "3", ".", "w", "a", "s", "a", "b", "i", "s", "y", "s", ".", "c", "o", "m">>
DefaultPrefix == <<"t", "r", "a", "v", "e", "l", "-", "b", "a", "c", "k", "u", "p">>
Restic == <<"r", "e", "s", "t", "i", "c">>
Backup == <<"b", "a", "c", "k", "u", "p">>
DashR == <<"-", "r">>

RequiredVars == <<"RESTIC_PASSWORD", "AWS_ACCESS_KEY_ID", "AWS_SECRET_ACCESS_KEY">>
SecretKeys == <<"AWS_SECRET_ACCESS_KEY", "RESTIC_PASSWORD", "AWS_SECRET_KEY">>

Range(s) == {s[i] : i \in 1..Len(s)}

\* Every variable name the model's environments use, in the order lines are printed.
KeyOrder == <<"RESTIC_PASSWORD", "AWS_ACCESS_KEY_ID", "AWS_SECRET_ACCESS_KEY",
              "AWS_SECRET_KEY", "WASABI_ENDPOINT", "RESTIC_PREFIX", "PATH">>
AwsKeys == {"AWS_ACCESS_KEY_ID", "AWS_SECRET_ACCESS_KEY", "AWS_SECRET_KEY"}
ResticKeys == {"RESTIC_PASSWORD", "RESTIC_PREFIX"}

\* k.startswith("AWS_") or k.startswith("RESTIC_") or k in ("WASABI_ENDPOINT",)
Printed(k) == k \in AwsKeys \/ k \in ResticKeys \/ k \in {"WASABI_ENDPOINT"}

\* d.get(k, default)
Get(d, k, default) == IF k \in DOMAIN d THEN d[k] ELSE default

-----------------------------------------------------------------------------
(* build_repo *)

RECURSIVE rstrip(_, _)
rstrip(s, c) ==
    IF s # <<>> /\ s[Len(s)] = c THEN rstrip(SubSeq(s, 1, Len(s) - 1), c) ELSE s

RECURSIVE lstrip(_, _)
lstrip(s, c) ==
    IF s # <<>> /\ Head(s) = c THEN lstrip(Tail(s), c) ELSE s

strip(s, c) == rstrip(lstrip(s, c), c)

RECURSIVE join(_, _)
join(sep, parts) ==
    IF parts = <<>> THEN <<>>
    ELSE IF Len(parts) = 1 THEN parts[1]
    ELSE parts[1] \o sep \o join(sep, Tail(parts))

build_repo(endpoint, bucket, prefix) ==
    LET p0 == << S3 \o rstrip(endpoint, "/") >>
        p1 == IF Truthy(bucket) THEN Append(p0, strip(bucket, "/")) ELSE p0
        p2 == IF Truthy(prefix) THEN Append(p1, strip(prefix, "/")) ELSE p1
    IN  join(<<"/">>, p2)

-----------------------------------------------------------------------------
(* redact_env *)

\* redact_env with RESTIC_PASSWORD left out of the tuple of secret names
redact_env_no_password(e) ==
    [k \in DOMAIN e |->
        IF k \in {"AWS_SECRET_ACCESS_KEY", "AWS_SECRET_KEY"} /\ e[k] # <<>>
        THEN MARKER ELSE e[k]]

redact_env(e) ==
    [k \in DOMAIN e |->
        IF k \in Range(SecretKeys) /\ e[k] # <<>> THEN MARKER ELSE e[k]]

-----------------------------------------------------------------------------
(* load_dotenv(path): sets every name of the file that os.environ does not hold *)

load_dotenv(e, f) ==
    [k \in DOMAIN e \cup DOMAIN f |-> IF k \in DOMAIN e THEN e[k] ELSE f[k]]

-----------------------------------------------------------------------------
(* main *)

Line(tag, key, val) == [tag |-> tag, key |-> key, val |-> val]

NoProc == [started |-> FALSE, decoded |-> FALSE, status |-> 0,
           cmd |-> <<>>, env |-> EmptyMap]

Return(code, at) ==
    /\ pc' = "done"
    /\ rc' = code
    /\ exit_at' = at

\* lines 32-59: the defaults of --endpoint and --prefix are computed from os.environ
\* when the arguments are declared, before the .env file is loaded
ParsedArgs(a, e) ==
    [a EXCEPT
        !.endpoint = IF a.endpoint = None
                     THEN Get(e, "WASABI_ENDPOINT", DefaultEndpoint) ELSE a.endpoint,
        !.prefix = IF a.prefix = None
                   THEN Get(e, "RESTIC_PREFIX", DefaultPrefix) ELSE a.prefix]

ParseArgs ==
    /\ pc = "parse"
    /\ args' = ParsedArgs(argv, environ)
    /\ pc' = "load"
    /\ UNCHANGED <<argv, ambient, envfile, source_exists, restic_on_path, environ,
                   repo, env, redacted, missing, cmd, out, runs, proc, exit_at, rc>>

\* lines 61-63
LoadEnvFile ==
    /\ pc = "load"
    /\ environ' = IF envfile.exists THEN load_dotenv(environ, envfile.vars) ELSE environ
    /\ pc' = "source"
    /\ UNCHANGED <<argv, ambient, envfile, source_exists, restic_on_path, args,
                   repo, env, redacted, missing, cmd, out, runs, proc, exit_at, rc>>

\* ValidateSource with the early return lost: a missing source only prints
ValidateSourceNoReturn ==
    /\ pc = "source"
    /\ out' = IF ~source_exists
              THEN Append(out, Line("error_source", "", args.source)) ELSE out
    /\ pc' = "repo"
    /\ UNCHANGED <<argv, ambient, envfile, source_exists, restic_on_path, environ, args,
                   repo, env, redacted, missing, cmd, runs, proc, exit_at, rc>>

\* lines 65-69
ValidateSource ==
    /\ pc = "source"
    /\ IF ~source_exists
       THEN /\ out' = Append(out, Line("error_source", "", args.source))
            /\ Return(2, "source")
       ELSE /\ pc' = "repo"
            /\ UNCHANGED <<out, rc, exit_at>>
    /\ UNCHANGED <<argv, ambient, envfile, source_exists, restic_on_path, environ, args,
                   repo, env, redacted, missing, cmd, runs, proc>>

\* ChooseRepo preferring the address built from the parts when --bucket is given
ChooseRepoPartsFirst(a) ==
    IF Truthy(a.bucket) THEN build_repo(a.endpoint, a.bucket, a.prefix)
    ELSE IF Truthy(a.repository) THEN a.repository
    ELSE None

\* lines 72-78: the repository string, or None when --bucket is required and not given
ChooseRepo(a) ==
    IF Truthy(a.repository) THEN a.repository
    ELSE IF ~Truthy(a.bucket) THEN None
    ELSE build_repo(a.endpoint, a.bucket, a.prefix)

\* lines 71-78
BuildRepository ==
    /\ pc = "repo"
    /\ IF ChooseRepo(args) = None
       THEN /\ out' = Append(out, Line("error_bucket", "", <<>>))
            /\ Return(2, "bucket")
            /\ UNCHANGED repo
       ELSE /\ repo' = ChooseRepo(args)
            /\ pc' = "env"
            /\ UNCHANGED <<out, rc, exit_at>>
    /\ UNCHANGED <<argv, ambient, envfile, source_exists, restic_on_path, environ, args,
                   env, redacted, missing, cmd, runs, proc>>

\* e[k] = v
Set(e, k, v) == [x \in DOMAIN e \cup {k} |-> IF x = k THEN v ELSE e[x]]

\* ApplyOverrides with the environment winning: a flag only fills a name env lacks
ApplyOverridesEnvWins(e, a) ==
    LET fill(d, k, v) == IF Truthy(v) /\ k \notin DOMAIN d THEN Set(d, k, v) ELSE d
    IN  fill(fill(fill(e, "RESTIC_PASSWORD", a.password),
                  "AWS_ACCESS_KEY_ID", a.access_key),
             "AWS_SECRET_ACCESS_KEY", a.secret_key)

\* lines 84-89
ApplyOverrides(e, a) ==
    LET e1 == IF Truthy(a.password) THEN Set(e, "RESTIC_PASSWORD", a.password) ELSE e
        e2 == IF Truthy(a.access_key) THEN Set(e1, "AWS_ACCESS_KEY_ID", a.access_key) ELSE e1
        e3 == IF Truthy(a.secret_key) THEN Set(e2, "AWS_SECRET_ACCESS_KEY", a.secret_key) ELSE e2
    IN  e3

\* lines 80-89
PrepareEnv ==
    /\ pc = "env"
    /\ env' = ApplyOverrides(environ, args)
    /\ pc' = "missing"
    /\ UNCHANGED <<argv, ambient, envfile, source_exists, restic_on_path, environ, args,
                   repo, redacted, missing, cmd, out, runs, proc, exit_at, rc>>

\* MissingVars testing for the name only, so that an empty value passes
MissingVarsAbsentOnly(e) ==
    SelectSeq(RequiredVars, LAMBDA var : var \notin DOMAIN e)

\* lines 92-95
MissingVars(e) ==
    SelectSeq(RequiredVars, LAMBDA var : Get(e, var, None) \in {None, <<>>})

\* lines 91-99
ValidateEnv ==
    /\ pc = "missing"
    /\ missing' = MissingVars(env)
    /\ IF MissingVars(env) # <<>>
       THEN /\ out' = out \o << Line("error_missing", "", MissingVars(env)),
                                Line("tip", "", <<>>) >>
            /\ Return(2, "missing")
       ELSE /\ pc' = "which"
            /\ UNCHANGED <<out, rc, exit_at>>
    /\ UNCHANGED <<argv, ambient, envfile, source_exists, restic_on_path, environ, args,
                   repo, env, redacted, cmd, runs, proc>>

\* EnsureRestic reporting a missing binary as a validation error
EnsureResticAsValidation ==
    /\ pc = "which"
    /\ IF ~restic_on_path
       THEN /\ out' = Append(out, Line("error_restic", "", <<>>))
            /\ Return(2, "which")
            /\ UNCHANGED cmd
       ELSE /\ cmd' = <<Restic, DashR, repo, Backup, args.source>>
            /\ pc' = "report"
            /\ UNCHANGED <<out, rc, exit_at>>
    /\ UNCHANGED <<argv, ambient, envfile, source_exists, restic_on_path, environ, args,
                   repo, env, redacted, missing, runs, proc>>

\* lines 101-106
EnsureRestic ==
    /\ pc = "which"
    /\ IF ~restic_on_path
       THEN /\ out' = Append(out, Line("error_restic", "", <<>>))
            /\ Return(3, "which")
            /\ UNCHANGED cmd
       ELSE /\ cmd' = <<Restic, DashR, repo, Backup, args.source>>
            /\ pc' = "report"
            /\ UNCHANGED <<out, rc, exit_at>>
    /\ UNCHANGED <<argv, ambient, envfile, source_exists, restic_on_path, environ, args,
                   repo, env, redacted, missing, runs, proc>>

\* lines 112-114: one line per printed name of the redacted copy
EnvLines(r) ==
    LET keys == SelectSeq(KeyOrder, LAMBDA k : k \in DOMAIN r /\ Printed(k))
    IN  [i \in 1..Len(keys) |-> Line("env", keys[i], r[keys[i]])]

\* lines 108-114
Report ==
    /\ pc = "report"
    /\ IF args.verbose \/ args.dry_run
       THEN /\ redacted' = redact_env(env)
            /\ out' = out \o << Line("Repository:", "", repo),
                                Line("Command:", "", join(<<" ">>, cmd)),
                                Line("Environment (redacted):", "", <<>>) >>
                          \o EnvLines(redact_env(env))
       ELSE UNCHANGED <<redacted, out>>
    /\ pc' = "dry"
    /\ UNCHANGED <<argv, ambient, envfile, source_exists, restic_on_path, environ, args,
                   repo, env, missing, cmd, runs, proc, exit_at, rc>>

\* DryRun with the flag not looked at
DryRunIgnored ==
    /\ pc = "dry"
    /\ pc' = "run"
    /\ UNCHANGED <<argv, ambient, envfile, source_exists, restic_on_path, environ, args,
                   repo, env, redacted, missing, cmd, out, runs, proc, exit_at, rc>>

\* lines 116-118
DryRun ==
    /\ pc = "dry"
    /\ IF args.dry_run
       THEN /\ out' = Append(out, Line("dry_run", "", <<>>))
            /\ Return(0, "dry")
       ELSE /\ pc' = "run"
            /\ UNCHANGED <<out, rc, exit_at>>
    /\ UNCHANGED <<argv, ambient, envfile, source_exists, restic_on_path, environ, args,
                   repo, env, redacted, missing, cmd, runs, proc>>

\* What subprocess.run(cmd, env=env, capture_output=True, text=True) can do: fail to
\* start the child (OSError); or run it to its exit status and then either return
\* the decoded output, or raise UnicodeDecodeError on output that is not valid text.
ProcOutcomes ==
    { [started |-> FALSE, decoded |-> FALSE, status |-> 0, stdout |-> <<>>, stderr |-> <<>>] }
    \cup [started : {TRUE}, decoded : {TRUE}, status : 0..MaxStatus,
          stdout : {<<>>, <<"o">>}, stderr : {<<>>, <<"e">>}]
    \cup [started : {TRUE}, decoded : {FALSE}, status : 0..MaxStatus,
          stdout : {<<>>}, stderr : {<<>>}]

\* lines 120-132
RunRestic ==
    /\ pc = "run"
    /\ \E o \in ProcOutcomes :
        /\ runs' = runs + 1
        /\ proc' = [started |-> o.started, decoded |-> o.decoded, status |-> o.status,
                    cmd |-> cmd, env |-> env]
        /\ IF o.started /\ o.decoded
           THEN /\ out' = out
                        \o (IF o.stdout # <<>> THEN << Line("stdout", "", o.stdout) >> ELSE <<>>)
                        \o (IF o.stderr # <<>> THEN << Line("stderr", "", o.stderr) >> ELSE <<>>)
                /\ Return(o.status, "complete")
           ELSE /\ out' = Append(out, Line("error_run", "", <<>>))
                /\ Return(4, "except")
    /\ UNCHANGED <<argv, ambient, envfile, source_exists, restic_on_path, environ, args,
                   repo, env, redacted, missing, cmd>>

Next ==
    \/ ParseArgs
    \/ LoadEnvFile
    \/ ValidateSource
    \/ BuildRepository
    \/ PrepareEnv
    \/ ValidateEnv
    \/ EnsureRestic
    \/ Report
    \/ DryRun
    \/ RunRestic

-----------------------------------------------------------------------------
(* The functions called on their own *)

\* build_repo(args.endpoint, args.bucket, args.prefix)
CallBuildRepo ==
    /\ pc = "build_repo"
    /\ repo' = build_repo(args.endpoint, args.bucket, args.prefix)
    /\ pc' = "returned"
    /\ UNCHANGED <<argv, ambient, envfile, source_exists, restic_on_path, environ, args,
                   env, redacted, missing, cmd, out, runs, proc, exit_at, rc>>

\* redact_env(env): the result is a copy, env itself is not written
CallRedactEnv ==
    /\ pc = "redact_env"
    /\ redacted' = redact_env(env)
    /\ pc' = "returned"
    /\ UNCHANGED <<argv, ambient, envfile, source_exists, restic_on_path, environ, args,
                   repo, env, missing, cmd, out, runs, proc, exit_at, rc>>

-----------------------------------------------------------------------------
(* Inputs *)

Src == <<"d">>

\* every dict with keys among K and values among V
Maps(K, V) == UNION {[D -> V] : D \in SUBSET K}

Opt(V) == {None} \cup V

Locals ==
    /\ environ = ambient
    /\ args = argv
    /\ repo = None
    /\ env = EmptyMap
    /\ redacted = EmptyMap
    /\ missing = <<>>
    /\ cmd = <<>>
    /\ out = <<>>
    /\ runs = 0
    /\ proc = NoProc
    /\ exit_at = ""
    /\ rc = -1

\* a run of main on a command line of A, in an environment of E, with a .env file of F
InitMain(A, E, F) ==
    /\ argv \in A
    /\ ambient \in E
    /\ envfile \in F
    /\ source_exists \in BOOLEAN
    /\ restic_on_path \in BOOLEAN
    /\ pc = "parse"
    /\ Locals

FullEnv ==
    [k \in {"RESTIC_PASSWORD", "AWS_ACCESS_KEY_ID", "AWS_SECRET_ACCESS_KEY",
            "AWS_SECRET_KEY", "PATH"} |->
        CASE k = "RESTIC_PASSWORD" -> <<"x">>
          [] k = "AWS_ACCESS_KEY_ID" -> <<"y">>
          [] k = "AWS_SECRET_ACCESS_KEY" -> <<"z">>
          [] k = "AWS_SECRET_KEY" -> <<"w">>
          [] OTHER -> <<"/", "b">>]

PartEnv ==
    [k \in {"RESTIC_PASSWORD", "AWS_SECRET_KEY"} |->
        IF k = "RESTIC_PASSWORD" THEN <<"x">> ELSE <<>>]

FileA ==
    [exists |-> TRUE,
     vars |-> [k \in {"AWS_ACCESS_KEY_ID", "AWS_SECRET_ACCESS_KEY", "WASABI_ENDPOINT"} |->
                 <<"f">>]]

ArgvFlow ==
    [source : {Src}, bucket : Opt({<<>>, <<"b">>}), endpoint : Opt({<<"e">>}),
     prefix : Opt({<<"p">>}), access_key : Opt({<<"k">>}), secret_key : Opt({<<"s">>}),
     password : Opt({<<"q">>}), repository : Opt({<<>>, <<"r">>}),
     dry_run : BOOLEAN, verbose : BOOLEAN]

Init == InitMain(ArgvFlow, {EmptyMap, FullEnv, PartEnv}, {NoFile, FileA})

Spec == Init /\ [][Next]_vars

\* main runs to its return: nothing in it waits
FairSpec == Spec /\ WF_vars(Next)

\* The credentials in every layer: flag absent, empty or given; variable absent, empty
\* or set in the environment; absent or set in the .env file.
RequiredSet == {"RESTIC_PASSWORD", "AWS_ACCESS_KEY_ID", "AWS_SECRET_ACCESS_KEY"}

ArgvCred ==
    [source : {Src}, bucket : Opt({<<"b">>}), endpoint : {None}, prefix : {None},
     access_key : Opt({<<>>, <<"c">>}), secret_key : Opt({<<>>, <<"c">>}),
     password : Opt({<<>>, <<"c">>}), repository : Opt({<<"r">>}),
     dry_run : BOOLEAN, verbose : {FALSE}]

Files(K, V) == {NoFile} \cup {[exists |-> TRUE, vars |-> m] : m \in Maps(K, V)}

InitCred ==
    InitMain(ArgvCred, Maps(RequiredSet, {<<>>, <<"a">>}), Files(RequiredSet, {<<"f">>}))

SpecCred == InitCred /\ [][Next]_vars

\* The address inputs in every layer.
AddrKeys == {"WASABI_ENDPOINT", "RESTIC_PREFIX"}

ArgvAddr ==
    [source : {Src}, bucket : Opt({<<>>, <<"b">>}), endpoint : Opt({<<>>, <<"e">>}),
     prefix : Opt({<<>>, <<"p">>}), access_key : {<<"k">>}, secret_key : {<<"s">>},
     password : Opt({<<"q">>}), repository : Opt({<<>>, <<"r">>}),
     dry_run : BOOLEAN, verbose : {TRUE}]

InitAddr ==
    InitMain(ArgvAddr, Maps(AddrKeys, {<<"x">>}), Files(AddrKeys, {<<"y">>}))

SpecAddr == InitAddr /\ [][Next]_vars

\* build_repo on every triple of strings of "a" and "/" up to MaxLen long.
RECURSIVE Strings(_, _)
Strings(C, n) ==
    IF n = 0 THEN {<<>>}
    ELSE Strings(C, n - 1) \cup {Append(s, c) : s \in Strings(C, n - 1), c \in C}

NoArgv ==
    [source |-> Src, bucket |-> None, endpoint |-> None, prefix |-> None,
     access_key |-> None, secret_key |-> None, password |-> None, repository |-> None,
     dry_run |-> FALSE, verbose |-> FALSE]

InitBuildRepo ==
    /\ argv \in {[NoArgv EXCEPT !.endpoint = e, !.bucket = b, !.prefix = p] :
                    e \in Strings({"a", "/"}, MaxLen),
                    b \in Strings({"a", "/"}, MaxLen),
                    p \in Strings({"a", "/"}, MaxLen)}
    /\ ambient = EmptyMap
    /\ envfile = NoFile
    /\ source_exists = TRUE
    /\ restic_on_path = TRUE
    /\ pc = "build_repo"
    /\ Locals

SpecBuildRepo == InitBuildRepo /\ [][CallBuildRepo]_vars

\* redact_env on every mapping of these names to these values, and main's runs.
RedactKeys == {"RESTIC_PASSWORD", "AWS_SECRET_ACCESS_KEY", "AWS_SECRET_KEY",
               "AWS_ACCESS_KEY_ID", "PATH"}

InitRedactEnv ==
    /\ argv = NoArgv
    /\ ambient \in Maps(RedactKeys, {<<>>, <<"v">>, MARKER})
    /\ envfile = NoFile
    /\ source_exists = TRUE
    /\ restic_on_path = TRUE
    /\ pc = "redact_env"
    /\ environ = ambient
    /\ args = argv
    /\ repo = None
    /\ env = ambient
    /\ redacted = EmptyMap
    /\ missing = <<>>
    /\ cmd = <<>>
    /\ out = <<>>
    /\ runs = 0
    /\ proc = NoProc
    /\ exit_at = ""
    /\ rc = -1

SpecRedact == (InitRedactEnv \/ Init) /\ [][Next \/ CallRedactEnv]_vars

-----------------------------------------------------------------------------
(* What the claims speak of, stated on the inputs of a run *)

Done == pc = "done"

HasLine(tag) == \E i \in 1..Len(out) : out[i].tag = tag

\* the flag that overrides variable k
CliFlag(k) ==
    CASE k = "RESTIC_PASSWORD" -> argv.password
      [] k = "AWS_ACCESS_KEY_ID" -> argv.access_key
      [] k = "AWS_SECRET_ACCESS_KEY" -> argv.secret_key

\* the value of k below the command line: the environment's, else the .env file's
Layered(k) ==
    IF k \in DOMAIN ambient THEN ambient[k]
    ELSE IF envfile.exists /\ k \in DOMAIN envfile.vars THEN envfile.vars[k]
    ELSE None

Effective(k) == IF Truthy(CliFlag(k)) THEN CliFlag(k) ELSE Layered(k)

ExpectedMissing == {k \in RequiredSet : ~Truthy(Effective(k))}

RepoDetermined == Truthy(argv.repository) \/ Truthy(argv.bucket)

ChecksPassed ==
    source_exists /\ RepoDetermined /\ ExpectedMissing = {} /\ restic_on_path

\* the return statement of the first check that fails
FirstFailing ==
    IF ~source_exists THEN "source"
    ELSE IF ~RepoDetermined THEN "bucket"
    ELSE IF ExpectedMissing # {} THEN "missing"
    ELSE IF ~restic_on_path THEN "which"
    ELSE "none"

-----------------------------------------------------------------------------
(* C1 *)

\* C1: when the source path does not exist, subprocess.run is never called, whatever
\* the other flags, the environment, the .env file and PATH are; main returns, and
\* it returns 2.
C1_MissingSourceExits2 ==
    /\ [](~source_exists => runs = 0)
    /\ [](Done /\ ~source_exists => rc = 2 /\ exit_at = "source")
    /\ (~source_exists ~> Done)

C1_Witness ==
    /\ Done
    /\ ~source_exists
    /\ rc = 2
    /\ HasLine("error_source")
    /\ restic_on_path
    /\ ~argv.dry_run
    /\ RepoDetermined
    /\ ExpectedMissing = {}

(* C2 *)

\* C2: with --dry-run, subprocess.run is never called; and when every check passes,
\* main prints the repository, the command and the redacted environment, and
\* returns 0.
C2_DryRunSpawnsNothing ==
    /\ argv.dry_run => runs = 0
    /\ (Done /\ argv.dry_run /\ ChecksPassed) =>
          /\ rc = 0
          /\ exit_at = "dry"
          /\ \E i \in 1..Len(out) : out[i] = Line("Repository:", "", repo)
          /\ \E i \in 1..Len(out) : out[i] = Line("Command:", "", join(<<" ">>, cmd))
          /\ HasLine("Environment (redacted):")
          /\ \A k \in RequiredSet :
                \E i \in 1..Len(out) :
                    /\ out[i].tag = "env"
                    /\ out[i].key = k
                    /\ out[i].val = redact_env(env)[k]
          /\ HasLine("dry_run")

C2_Witness ==
    /\ Done
    /\ argv.dry_run
    /\ ~argv.verbose
    /\ ChecksPassed
    /\ rc = 0
    /\ HasLine("Command:")

(* C3 *)

\* C3: once subprocess.run was called: if the child started and ran to its end, main
\* returns the child's exit status, whatever it is; if the child could not be
\* started, main returns 4 and reports the failure to run, which it reports in no
\* run whose child ran.
C3_ExitCodeIsChildStatus ==
    (Done /\ runs = 1) =>
        /\ proc.started => rc = proc.status /\ ~HasLine("error_run")
        /\ ~proc.started => rc = 4 /\ HasLine("error_run")

(* C10 *)

\* C10: the checks run in the order source, repository, required variables, restic,
\* and main leaves by the first that fails; it returns 3 without calling
\* subprocess.run exactly when the first three pass and restic is not on PATH;
\* subprocess.run is called at most once, and only after all four passed without
\* --dry-run.
C10_FirstFailingCheckDecides ==
    /\ runs <= 1
    /\ runs = 1 => ChecksPassed /\ ~argv.dry_run
    /\ Done =>
          /\ (rc = 3 /\ runs = 0) <=>
                (source_exists /\ RepoDetermined /\ ExpectedMissing = {} /\ ~restic_on_path)
          /\ FirstFailing # "none" => exit_at = FirstFailing /\ runs = 0
          /\ FirstFailing \in {"source", "bucket", "missing"} => rc = 2
          /\ FirstFailing = "none" => exit_at \in {"dry", "complete", "except"}

C10_Witness ==
    /\ Done
    /\ rc = 3
    /\ runs = 0
    /\ exit_at = "which"
    /\ ~argv.dry_run
    /\ argv.bucket = None

-----------------------------------------------------------------------------
(* C4 *)

\* the required names in the order main tests them, those of S only
InOrder(S) == SelectSeq(RequiredVars, LAMBDA k : k \in S)

\* C4: once the flags are applied, missing lists exactly the required variables whose
\* effective value is empty or absent; and when the source exists and a repository
\* address is determined, a non-empty missing list makes main return 2 with a
\* message naming each of them, and subprocess.run is never called.
C4_MissingIsTheEmptyOrAbsent ==
    /\ (pc \in {"which", "report", "dry", "run"}
          \/ (Done /\ exit_at \notin {"source", "bucket"})) =>
            /\ \A k \in RequiredSet : Get(env, k, None) = Effective(k)
            /\ missing = InOrder(ExpectedMissing)
    /\ (source_exists /\ RepoDetermined /\ ExpectedMissing # {}) =>
            /\ runs = 0
            /\ Done =>
                  /\ rc = 2
                  /\ exit_at = "missing"
                  /\ \E i \in 1..Len(out) :
                        out[i] = Line("error_missing", "", InOrder(ExpectedMissing))

C4_Witness ==
    /\ Done
    /\ exit_at = "missing"
    /\ missing = <<"AWS_ACCESS_KEY_ID", "AWS_SECRET_ACCESS_KEY">>
    /\ argv.password = <<"c">>
    /\ argv.secret_key = <<>>
    /\ "AWS_ACCESS_KEY_ID" \in DOMAIN ambient
    /\ envfile.exists
    /\ "AWS_ACCESS_KEY_ID" \in DOMAIN envfile.vars

(* C5 *)

\* C5 as claimed: every credential given on the command line, the empty string
\* included, is the value of its variable in the environment restic is run with.
C5_AnyCliValueWins ==
    runs = 1 =>
        \A k \in RequiredSet :
            CliFlag(k) # None => Get(proc.env, k, None) = CliFlag(k)

\* C5, amended: every non-empty credential given on the command line is the value of
\* its variable in env, and in the environment restic is run with, whatever the
\* process environment and the .env file hold for it.
C5_NonEmptyCliValueWins ==
    /\ (pc \in {"missing", "which", "report", "dry", "run"}
          \/ (Done /\ exit_at \notin {"source", "bucket"})) =>
            \A k \in RequiredSet :
                Truthy(CliFlag(k)) => Get(env, k, None) = CliFlag(k)
    /\ runs = 1 =>
            \A k \in RequiredSet :
                Truthy(CliFlag(k)) => Get(proc.env, k, None) = CliFlag(k)

C5_Witness ==
    /\ runs = 1
    /\ argv.password = <<"c">>
    /\ Get(ambient, "RESTIC_PASSWORD", None) = <<"a">>
    /\ envfile.exists
    /\ Get(envfile.vars, "RESTIC_PASSWORD", None) = <<"f">>
    /\ proc.env["RESTIC_PASSWORD"] = <<"c">>

(* C6 *)

\* the copy r shows e with every non-empty secret replaced by the marker
Redacts(r, e) ==
    /\ DOMAIN r = DOMAIN e
    /\ \A k \in DOMAIN e :
          r[k] = IF k \in {"AWS_SECRET_ACCESS_KEY", "RESTIC_PASSWORD", "AWS_SECRET_KEY"}
                    /\ e[k] # <<>>
                 THEN MARKER ELSE e[k]

\* C6: redact_env returns a mapping in which each secret name with a non-empty value
\* has the marker and every other name its own value, and does not write to its
\* argument; and each environment line main prints under --verbose or --dry-run
\* shows the marker for a secret name, never the value env holds for it.
C6_SecretsPrintedAsMarker ==
    /\ [](pc = "returned" => Redacts(redacted, env))
    /\ [](\A i \in 1..Len(out) :
            out[i].tag = "env" =>
                /\ Redacts(redacted, env)
                /\ out[i].key \in DOMAIN env
                /\ out[i].val = redacted[out[i].key]
                /\ (out[i].key \in {"AWS_SECRET_ACCESS_KEY", "RESTIC_PASSWORD",
                                     "AWS_SECRET_KEY"}
                      /\ env[out[i].key] # <<>>) => out[i].val = MARKER)
    /\ [][(pc \in {"redact_env", "report"}) => (env' = env)]_vars

C6_Witness ==
    /\ pc = "dry"
    /\ argv.verbose
    /\ ~argv.dry_run
    /\ env["RESTIC_PASSWORD"] = <<"q">>
    /\ Get(env, "AWS_SECRET_KEY", None) = <<>>
    /\ \E i \in 1..Len(out) : out[i] = Line("env", "RESTIC_PASSWORD", MARKER)
    /\ \E i \in 1..Len(out) : out[i] = Line("env", "AWS_SECRET_ACCESS_KEY", MARKER)
    /\ \E i \in 1..Len(out) : out[i] = Line("env", "AWS_SECRET_KEY", <<>>)

(* C7 *)

Count(s, c) == Cardinality({i \in 1..Len(s) : s[i] = c})

\* C7: for a non-empty endpoint (here even one that holds no "/" of its own) the
\* address starts with the one "s3:", has no empty path segment (no "//", no "/" at
\* its end), and is "s3:" and the endpoint alone when bucket and prefix are both empty.
C7_NoEmptySegment ==
    (pc = "returned" /\ args.endpoint # <<>> /\ Count(args.endpoint, "/") = 0) =>
        /\ SubSeq(repo, 1, 3) = S3
        /\ Count(repo, ":") = 1
        /\ \A i \in 1..(Len(repo) - 1) : ~(repo[i] = "/" /\ repo[i + 1] = "/")
        /\ repo[Len(repo)] # "/"
        /\ (args.bucket = <<>> /\ args.prefix = <<>>) => repo = S3 \o args.endpoint

(* C8 *)

\* C8 as claimed: whenever --repository is given, the empty string included, the
\* argument after -r is that string and no --bucket is asked for; with neither
\* --repository nor --bucket main returns 2 and calls no subprocess.
C8_AnyRepositoryVerbatim ==
    /\ argv.repository # None =>
            /\ ~HasLine("error_bucket")
            /\ cmd # <<>> => cmd[2] = DashR /\ cmd[3] = argv.repository
            /\ runs = 1 => proc.cmd[2] = DashR /\ proc.cmd[3] = argv.repository
    /\ (argv.repository = None /\ argv.bucket = None) =>
            /\ runs = 0
            /\ Done => rc = 2

\* C8, amended: when a non-empty --repository is given, the argument after -r is
\* exactly that string whatever --bucket, --endpoint and --prefix are, and no
\* --bucket is asked for; with neither --repository nor --bucket main returns 2 and
\* calls no subprocess.
C8_NonEmptyRepositoryVerbatim ==
    /\ Truthy(argv.repository) =>
            /\ ~HasLine("error_bucket")
            /\ cmd # <<>> => cmd[2] = DashR /\ cmd[3] = argv.repository
            /\ runs = 1 => proc.cmd[2] = DashR /\ proc.cmd[3] = argv.repository
    /\ (argv.repository = None /\ argv.bucket = None) =>
            /\ runs = 0
            /\ Done => rc = 2

C8_Witness ==
    /\ runs = 1
    /\ argv.repository = <<"r">>
    /\ argv.bucket = None
    /\ argv.endpoint = <<"e">>
    /\ proc.cmd[3] = <<"r">>
    /\ proc.started

(* C9 *)

\* the value of an address input by the precedence flag, environment, .env file, default
Resolved(flag, k, default) ==
    IF flag # None THEN flag
    ELSE IF Layered(k) # None THEN Layered(k)
    ELSE default

\* C9: an address built from the parts uses the endpoint and the prefix resolved by
\* the precedence flag, environment, .env file, built-in default.
C9_FileValuesAreDefaults ==
    (repo # None /\ ~Truthy(argv.repository)) =>
        repo = build_repo(Resolved(argv.endpoint, "WASABI_ENDPOINT", DefaultEndpoint),
                          argv.bucket,
                          Resolved(argv.prefix, "RESTIC_PREFIX", DefaultPrefix))

====
